---- MODULE Spec2Model ----
(***************************************************************************)
(* The clustering workshop notebook (clustering_linguistic_data.ipynb) as  *)
(* a state machine: the kernel's global names are the variables, every     *)
(* code cell that changes them is one action, and the cells run from top   *)
(* to bottom until one of them raises.                                     *)
(*                                                                         *)
(* Numbers.  A cell of a numeric column is the record [n, d, ra, rb] that  *)
(* stands for the real number (n / d) * sqrt(ra / rb); d = 0 is NaN.  The  *)
(* measurements of the csv are integers (ra = rb = 1); a z-score is a      *)
(* rational deviation divided by the square root of a rational variance,   *)
(* so it is exact in this form, and all z-scores of one speaker and one    *)
(* column share the radical ra / rb.                                       *)
(*                                                                         *)
(* Tables.  A DataFrame is [columns |-> set of names, rows |-> sequence    *)
(* of rows]; a row is a function from "index" and the column names to      *)
(* cells, "index" being the pandas index label of the row.                 *)
(***************************************************************************)
EXTENDS Integers, Sequences, FiniteSets, TLC

VARIABLES
    spade_buckeye_csv,   \* the downloaded file: a table with a RangeIndex
    cells,               \* the cells of this run, in notebook order
    pc,                  \* position in cells of the next cell to run
    error,               \* the exception that stopped the run, or NoError
    vowels, zscores, subset, formants, k_subset_zscore, inertias, k,
    k_subset_z2, tense, tense_formants_z, g_tense, probs, tense_means,
    tense_formants_mean, g_tense_means, aics, g, tense_means_db,
    range_iter,          \* what the running for loop's range has left
    Out                  \* the value displayed by the last expression cell

vars == <<spade_buckeye_csv, cells, pc, error, vowels, zscores, subset,
          formants, k_subset_zscore, inertias, k, k_subset_z2, tense,
          tense_formants_z, g_tense, probs, tense_means,
          tense_formants_mean, g_tense_means, aics, g, tense_means_db,
          range_iter, Out>>

----------------------------------------------------------------------------
(* Bounds of the model *)

\* rows of an arbitrary input file (SpecPrep)
MaxRows == 2
\* largest measurement, in hundreds of Hz, of an arbitrary input file
MaxHz == 2
\* rows the reference file may lack besides being truncated (Spec)
MaxDrop == 1
\* feature matrices up to this many rows get every labelling from a fit
MaxFullRows == 3
\* feature matrices up to this many rows have their k-means fits computed
MaxExactRows == 5
\* a small one-speaker file has 3 rows with measurements up to MaxGrid, or
\* MaxGridRows rows with measurements up to MaxGrid - 1
MaxGrid == 3
MaxGridRows == 4

----------------------------------------------------------------------------
(* Exact arithmetic on cells *)

NaN == [n |-> 0, d |-> 0, ra |-> 0, rb |-> 0]

isnull(v) == v.d = 0

Abs(x) == IF x < 0 THEN -x ELSE x

RECURSIVE GCD(_, _)
GCD(a, b) == IF b = 0 THEN a ELSE GCD(b, a % b)

\* (n / d) * sqrt(ra / rb) in lowest terms, d > 0; NaN when d or rb is 0
Real(n, d, ra, rb) ==
    IF d = 0 \/ rb = 0 THEN NaN
    ELSE LET s  == IF d < 0 THEN -1 ELSE 1
             gq == GCD(Abs(n), Abs(d))
             gr == GCD(ra, rb)
         IN  [n |-> (s * n) \div gq, d |-> (s * d) \div gq,
              ra |-> ra \div gr, rb |-> rb \div gr]

Num(x) == Real(x, 1, 1, 1)

\* x + y, x - y, x * y, x / m for cells of one radical (the radical of x)
Add(x, y) ==
    IF isnull(x) \/ isnull(y) THEN NaN
    ELSE LET g_ == GCD(x.d, y.d)
         IN  Real(x.n * (y.d \div g_) + y.n * (x.d \div g_), (x.d \div g_) * y.d,
                  x.ra, x.rb)

Sub(x, y) ==
    IF isnull(x) \/ isnull(y) THEN NaN
    ELSE LET g_ == GCD(x.d, y.d)
         IN  Real(x.n * (y.d \div g_) - y.n * (x.d \div g_), (x.d \div g_) * y.d,
                  x.ra, x.rb)

Times(x, m) == IF isnull(x) THEN NaN ELSE Real(x.n * m, x.d, x.ra, x.rb)

Over(x, m) == IF isnull(x) \/ m = 0 THEN NaN ELSE Real(x.n, x.d * m, x.ra, x.rb)

\* the square of a cell, a rational
Square(x) ==
    IF isnull(x) THEN NaN ELSE Real(x.n * x.n * x.ra, x.d * x.d * x.rb, 1, 1)

\* x < y for cells of one radical
Less(x, y) ==
    LET g_ == GCD(x.d, y.d)
    IN  x.n * (y.d \div g_) < y.n * (x.d \div g_)

RECURSIVE SumFrom(_, _)
SumFrom(a, i) ==
    IF i > Len(a) THEN Num(0)
    ELSE IF i = Len(a) THEN a[i] ELSE Add(a[i], SumFrom(a, i + 1))

\* numpy's sum of an array: NaN as soon as one element is NaN
Sum(a) == SumFrom(a, 1)

\* the elements of a that are not NaN, in order
NotNull(a) == SelectSeq(a, LAMBDA v : ~isnull(v))

----------------------------------------------------------------------------
(* pandas, as far as the notebook uses it *)

\* TLC evaluates a function constructor anew at every application; these
\* two are the identity and leave a stored sequence, a stored row
Eager(s) == SubSeq(s, 1, Len(s))
EagerRow(r) == r @@ <<>>

Indices(n) == [i \in 1..n |-> i]

\* the cells of column c, top to bottom
Column(t, c) == Eager([i \in 1..Len(t.rows) |-> t.rows[i][c]])

\* pd.read_csv's index: 0, 1, 2, ... in file order
RangeIndex(rows) == Eager([i \in 1..Len(rows) |-> ("index" :> (i - 1)) @@ rows[i]])

\* df[mask]: the rows whose mask is true, with their index labels, in order
BoolIndex(t, mask) ==
    LET kept == SelectSeq(Indices(Len(t.rows)), LAMBDA i : mask[i])
    IN  [columns |-> t.columns,
         rows |-> Eager([p \in 1..Len(kept) |-> t.rows[kept[p]]])]

\* df.loc[:, cols]
Loc(t, cols) ==
    [columns |-> cols,
     rows |-> Eager([i \in 1..Len(t.rows) |->
                 EagerRow([c \in cols \cup {"index"} |-> t.rows[i][c]])])]

\* an assignment that writes the new labels over the k = 3 labels as well
SetColumn_relabelling(t, c, a) ==
    [columns |-> t.columns \cup {c},
     rows |-> Eager([i \in 1..Len(t.rows) |->
                [x \in DOMAIN t.rows[i] \cup {c} |->
                   IF x \in {c, "cluster_label"} THEN a[i] ELSE t.rows[i][x]]])]

\* df[c] = array: the array's i-th element goes to the i-th row
SetColumn(t, c, a) ==
    [columns |-> t.columns \cup {c},
     rows |-> Eager([i \in 1..Len(t.rows) |-> (c :> a[i]) @@ t.rows[i]])]

\* the index labels left as they are
reset_index_skipped(t) == t

\* df.reset_index(drop=True)
reset_index(t) ==
    [columns |-> t.columns,
     rows |-> Eager([i \in 1..Len(t.rows) |-> ("index" :> (i - 1)) @@ t.rows[i]])]

\* df.rename(columns=m)
rename(t, m) ==
    LET NewName(c) == IF c \in DOMAIN m THEN m[c] ELSE c
        Old(c2, r) == CHOOSE c \in DOMAIN r : NewName(c) = c2
    IN  [columns |-> {NewName(c) : c \in t.columns},
         rows |-> Eager([i \in 1..Len(t.rows) |->
                     EagerRow([c2 \in {NewName(c) : c \in DOMAIN t.rows[i]} |->
                        t.rows[i][Old(c2, t.rows[i])]])])]

\* pd.concat([a, b], axis=1): an outer join on the index labels; a label one
\* side lacks gets NaN in that side's columns
concat(a, b) ==
    LET InA(x) == \E i \in 1..Len(a.rows) : a.rows[i]["index"] = x
        InB(x) == \E i \in 1..Len(b.rows) : b.rows[i]["index"] = x
        RowA(x) == a.rows[CHOOSE i \in 1..Len(a.rows) : a.rows[i]["index"] = x]
        RowB(x) == b.rows[CHOOSE i \in 1..Len(b.rows) : b.rows[i]["index"] = x]
        index == Column(a, "index")
                   \o SelectSeq(Column(b, "index"), LAMBDA x : ~InA(x))
        Joined(x) ==
            ("index" :> x)
              @@ [c \in a.columns |-> IF InA(x) THEN RowA(x)[c] ELSE NaN]
              @@ [c \in b.columns |-> IF InB(x) THEN RowB(x)[c] ELSE NaN]
    IN  [columns |-> a.columns \cup b.columns,
         rows |-> Eager([i \in 1..Len(index) |-> Joined(index[i])])]

\* the positions of the rows in the group of row i under df.groupby(by)
GroupPositions(t, by, i) ==
    SelectSeq(Indices(Len(t.rows)),
              LAMBDA j : \A b \in by : t.rows[j][b] = t.rows[i][b])

RankIn(s, j) == CHOOSE p \in 1..Len(s) : s[p] = j

\* scipy.stats.zscore(a, ddof): (a - a.mean()) / a.std(ddof), NaN propagating
zscore_ddof(a, ddof) ==
    LET N == Len(a)
        mn == Over(Sum(a), N)
        dev == Eager([i \in 1..N |-> Sub(a[i], mn)])
        var == Over(Sum([i \in 1..N |-> Square(dev[i])]), N - ddof)
    IN  Eager([i \in 1..N |->
           IF isnull(var) \/ var.n = 0 THEN NaN
           ELSE Real(dev[i].n, dev[i].d, var.d, var.n)])

\* the z-score with the sample standard deviation (ddof=1)
zscore_sample(a) == zscore_ddof(a, 1)

\* a z-score that takes a standard deviation of 0 for 1, as scalers do
zscore_zero_safe(a) ==
    LET z == zscore_ddof(a, 0)
    IN  Eager([i \in 1..Len(a) |->
           IF isnull(z[i]) /\ \A p \in 1..Len(a) : ~isnull(a[p])
           THEN Real(0, 1, 1, 1) ELSE z[i]])

\* stats.zscore as the notebook calls it: ddof is left at its default, 0
zscore(a) == zscore_ddof(a, 0)

\* df.groupby(by)[cols].transform(stats.zscore): the z-scores of every column
\* of every group, put back on the rows they came from
transform(t, by, cols) ==
    [columns |-> cols,
     rows |-> Eager([i \in 1..Len(t.rows) |->
        LET grp == GroupPositions(t, by, i)
        IN  ("index" :> t.rows[i]["index"])
              @@ [c \in cols |->
                    zscore(Eager([p \in 1..Len(grp) |-> t.rows[grp[p]][c]]))[RankIn(grp, i)]]])]

\* the order Python gives the strings of the model (str.__lt__)
Collation == <<"A", "aa", "ey", "ih", "iy", "ow", "s1", "s2", "s3", "uw">>

StrRank(x) == RankIn(Collation, x)

\* the elements of S as a sequence ascending by rank[x]
RECURSIVE Sorted(_, _)
Sorted(S, rank) ==
    IF S = {} THEN <<>>
    ELSE LET m == CHOOSE x \in S : \A y \in S \ {x} : rank[x] < rank[y]
         IN  <<m>> \o Sorted(S \ {m}, rank)

\* GroupBy.sum() with min_count=1: the sum of the cells that are not NaN
mean_undivided(a) ==
    LET nn == NotNull(a)
    IN  IF Len(nn) = 0 THEN NaN ELSE Sum(nn)

\* Series.mean() of pandas: the NaN cells are skipped, NaN when none is left
mean(a) ==
    LET nn == NotNull(a)
    IN  IF Len(nn) = 0 THEN NaN ELSE Over(Sum(nn), Len(nn))

\* df.groupby([k1, k2])[cols].mean().reset_index(): one row per key pair
\* that occurs, the pairs ascending, each column of cols averaged over the
\* pair's rows
groupby_mean(t, k1, k2, cols) ==
    LET pairs == {<<t.rows[i][k1], t.rows[i][k2]>> : i \in 1..Len(t.rows)}
        order == Sorted(pairs, [x \in pairs |->
                     StrRank(x[1]) * Len(Collation) + StrRank(x[2])])
        Members(key) ==
            SelectSeq(Indices(Len(t.rows)),
                      LAMBDA j : <<t.rows[j][k1], t.rows[j][k2]>> = key)
    IN  [columns |-> {k1, k2} \cup cols,
         rows |-> Eager([g_ \in 1..Len(order) |->
            ("index" :> (g_ - 1)) @@ (k1 :> order[g_][1]) @@ (k2 :> order[g_][2])
              @@ [c \in cols |->
                    mean(Eager([p \in 1..Len(Members(order[g_])) |->
                                 t.rows[Members(order[g_])[p]][c]]))]])]

\* how many positions of the two label arrays hold (r, c)
Count(a, b, r, c) == Cardinality({i \in 1..Len(a) : a[i] = r /\ b[i] = c})

\* pd.crosstab(a, b, normalize='all'): every count divided by the number of
\* rows
crosstab_all(a, b) ==
    LET rowlabels == {a[i] : i \in 1..Len(a)}
        collabels == {b[i] : i \in 1..Len(b)}
    IN  [index |-> Sorted(rowlabels, [r \in rowlabels |-> StrRank(r)]),
         columns |-> Sorted(collabels, [c \in collabels |-> c]),
         values |-> [r \in rowlabels |-> [c \in collabels |->
                       Over(Num(Count(a, b, r, c)), Len(a))]]]

\* pd.crosstab(a, b, normalize='index'): the table of counts over the labels
\* that occur, each row then divided by its own sum
crosstab(a, b) ==
    LET rowlabels == {a[i] : i \in 1..Len(a)}
        collabels == {b[i] : i \in 1..Len(b)}
        counts == [r \in rowlabels |-> [c \in collabels |-> Count(a, b, r, c)]]
        RECURSIVE RowSum(_, _)
        RowSum(r, cs) ==
            IF cs = {} THEN 0
            ELSE LET c == CHOOSE x \in cs : TRUE
                 IN  counts[r][c] + RowSum(r, cs \ {c})
    IN  [index |-> Sorted(rowlabels, [r \in rowlabels |-> StrRank(r)]),
         columns |-> Sorted(collabels, [c \in collabels |-> c]),
         values |-> [r \in rowlabels |-> [c \in collabels |->
                       Over(Num(counts[r][c]), RowSum(r, collabels))]]]

----------------------------------------------------------------------------
(* scikit-learn, as the notebook sees it: a fit either raises or returns a  *)
(* fitted model whose labels the notebook cannot predict                    *)

HasNaN(X) == \E i \in 1..Len(X.rows) : \E c \in X.columns : isnull(X.rows[i][c])

Rot(n, kk, s) == Eager([i \in 1..n |-> (i + s) % kk])

\* the label arrays a fit of kk clusters to n rows may return: every array
\* for a small matrix, two of them for a larger one
Labelings(n, kk) ==
    IF n <= MaxFullRows THEN [1..n -> 0..(kk - 1)]
    ELSE {Rot(n, kk, 0), Rot(n, kk, 1)}

\* the scalar a fitted model reports, known by the fit it comes from
Criterion(name, kk, X) == [criterion |-> name, count |-> kk, X |-> X]

\* a scalar whose number is not computed here
Unknown == [n |-> 0, d |-> 1, ra |-> 0, rb |-> 0]

\* the point of row i of the feature matrix X
Point(X, i) == <<X.rows[i]["F2.z"], X.rows[i]["F1.z"]>>

\* the squared Euclidean distance of two points, a rational
Dist2(p, q) == Add(Square(Sub(p[1], q[1])), Square(Sub(p[2], q[2])))

\* the positions that the label array l gives label c
Cluster(l, c) == SelectSeq(Indices(Len(l)), LAMBDA i : l[i] = c)

\* cluster_centers_: the mean of the points at the positions members
Centroid(X, members) ==
    <<Over(Sum(Eager([p \in 1..Len(members) |-> Point(X, members[p])[1]])), Len(members)),
      Over(Sum(Eager([p \in 1..Len(members) |-> Point(X, members[p])[2]])), Len(members))>>

\* the squared distances summed to the centre of all the rows instead
Inertia_from_grand_mean(X, l) ==
    Sum(<<Num(0)>> \o Eager([i \in 1..Len(l) |->
           Dist2(Point(X, i), Centroid(X, Indices(Len(l))))]))

\* inertia_: the sum of the squared distances of the points to the centre
\* of their cluster
Inertia(X, l) ==
    Sum(<<Num(0)>> \o Eager([i \in 1..Len(l) |->
           Dist2(Point(X, i), Centroid(X, Cluster(l, l[i])))]))

\* distances in X are rationals this model can compute: no NaN, the cells
\* of a column under one radical (the rows of one speaker), few rows
Exact(X) ==
    /\ Len(X.rows) <= MaxExactRows
    /\ ~HasNaN(X)
    /\ \A i, j \in 1..Len(X.rows) : \A c \in {1, 2} :
          /\ Point(X, i)[c].ra = Point(X, j)[c].ra
          /\ Point(X, i)[c].rb = Point(X, j)[c].rb

DistinctPoints(X) == {Point(X, i) : i \in 1..Len(X.rows)}

\* label arrays that number the clusters in the order of their first rows
FirstRowOrder(n, kk) ==
    {l \in [1..n -> 0..(kk - 1)] :
        \A i \in 1..n : l[i] = 0 \/ \E j \in 1..(i - 1) : l[j] = l[i] - 1}

\* the same clusters numbered from the other end
Renumbered(l, kk) == Eager([i \in 1..Len(l) |-> (kk - 1) - l[i]])

\* an iteration stopped before its first step: no cluster is empty
Converged_unmoved(X, l, kk) == \A c \in 0..(kk - 1) : Cluster(l, c) # <<>>

\* where Lloyd's iteration can stop: no cluster is empty, no two centres
\* coincide, and no point is nearer to another centre than to its own
Converged(X, l, kk) ==
    /\ \A c \in 0..(kk - 1) : Cluster(l, c) # <<>>
    /\ LET centre == [c \in 0..(kk - 1) |-> Centroid(X, Cluster(l, c))]
       IN  /\ \A c1, c2 \in 0..(kk - 1) : c1 # c2 => centre[c1] # centre[c2]
           /\ \A i \in 1..Len(l) : \A c \in 0..(kk - 1) :
                 ~Less(Dist2(Point(X, i), centre[c]), Dist2(Point(X, i), centre[l[i]]))

\* with fewer distinct points than clusters every distinct point is a
\* centre and equal points share a label (scikit-learn warns and returns)
OnePerPoint(X, l) ==
    \A i, j \in 1..Len(l) : (l[i] = l[j]) <=> (Point(X, i) = Point(X, j))

\* labels_ of KMeans(n_clusters = kk).fit(X): for a matrix whose distances
\* are computed, the arrays Lloyd's iteration can stop at, the clusters
\* numbered from either end; for other matrices, arrays not looked into
KMeansLabelings(X, kk) ==
    IF ~Exact(X) THEN Labelings(Len(X.rows), kk)
    ELSE LET stop == {l \in FirstRowOrder(Len(X.rows), kk) :
                        IF Cardinality(DistinctPoints(X)) < kk
                        THEN OnePerPoint(X, l)
                        ELSE Converged(X, l, kk)}
         IN  stop \cup {Renumbered(l, kk) : l \in stop}

\* a fit that accepts a matrix without rows
KMeansRaises_empty_accepted(X, kk) ==
    HasNaN(X) \/ (Len(X.rows) > 0 /\ Len(X.rows) < kk)

\* a fit that does not compare the number of rows with n_clusters
KMeansRaises_count_unchecked(X, kk) == Len(X.rows) = 0 \/ HasNaN(X)

\* KMeans.fit: check_array rejects an empty matrix and NaN, then
\* n_samples < n_clusters is rejected; all are ValueError
KMeansRaises(X, kk) == Len(X.rows) = 0 \/ HasNaN(X) \/ Len(X.rows) < kk

KMeansFits(X, kk) ==
    {[n_clusters |-> kk, X |-> X, labels_ |-> l,
      inertia_ |-> [criterion |-> "inertia", count |-> kk, X |-> X,
                    value |-> IF Exact(X) THEN Inertia(X, l) ELSE Unknown]] :
        l \in KMeansLabelings(X, kk)}

\* posterior matrices: one row per point, one column per component, every
\* row summing to 1
Hard(l, kk) == Eager([i \in 1..Len(l) |-> EagerRow([c \in 0..(kk - 1) |->
                  IF c = l[i] THEN Num(1) ELSE Num(0)])])

Soft(l, kk) == Eager([i \in 1..Len(l) |-> EagerRow([c \in 0..(kk - 1) |->
                  IF c = l[i] THEN Real(2, kk + 1, 1, 1) ELSE Real(1, kk + 1, 1, 1)])])

Flat(n, kk) == Eager([i \in 1..n |-> EagerRow([c \in 0..(kk - 1) |-> Real(1, kk, 1, 1)])])

Responsibilities(n, kk) ==
    IF n <= MaxFullRows
    THEN {Hard(l, kk) : l \in Labelings(n, kk)}
           \cup {Soft(l, kk) : l \in Labelings(n, kk)} \cup {Flat(n, kk)}
    ELSE {Hard(Rot(n, kk, 0), kk), Soft(Rot(n, kk, 1), kk)}

\* GaussianMixture.fit: at least 2 samples, no NaN, n_samples >= n_components
GaussianMixtureRaises(X, kk) == Len(X.rows) < 2 \/ HasNaN(X) \/ Len(X.rows) < kk

GaussianMixtureFits(X, kk) ==
    {[n_components |-> kk, X |-> X, resp |-> r] : r \in Responsibilities(Len(X.rows), kk)}

\* g.predict_proba(X), X being the matrix g was fitted to
predict_proba(m, X) == m.resp

\* g.predict(X): the component of the largest posterior, the first on a tie
predict(m, X) ==
    Eager([i \in 1..Len(X.rows) |->
       CHOOSE c \in 0..(m.n_components - 1) :
          /\ \A c2 \in 0..(m.n_components - 1) : ~Less(m.resp[i][c], m.resp[i][c2])
          /\ \A c2 \in 0..(c - 1) : Less(m.resp[i][c2], m.resp[i][c])])

aic(m, X) == Criterion("aic", m.n_components, X)

\* DBSCAN.fit: labels from -1 (noise) upwards
DBSCANRaises(X) == Len(X.rows) = 0 \/ HasNaN(X)

DBSCANFits(X) ==
    {[X |-> X, labels_ |-> l] :
        l \in {[i \in 1..Len(X.rows) |-> -1], [i \in 1..Len(X.rows) |-> 0],
               [i \in 1..Len(X.rows) |-> (i % 2) - 1]}}

----------------------------------------------------------------------------
(* The notebook's constants *)

subset_vowels == {"iy", "aa", "uw"}
tense_vowels == {"aa", "ey", "iy", "ow", "uw"}

\* KMeans(n_clusters = 3) of solved-belief, KMeans(n_clusters = 2) of dried-server
n_clusters == 3
n_clusters_z2 == 2
\* range(1,7) of the inertia sweep, range(1,10) of the AIC sweep
inertia_range_stop == 7
aic_range_stop == 10
\* GaussianMixture(n_components=5), of critical-telephone and of insured-patio
n_components == 5

ProbNames == <<"prob_0", "prob_1", "prob_2", "prob_3", "prob_4">>

\* pd.DataFrame(matrix).rename(columns={0:'prob_0', ..., 4:'prob_4'})
ProbsFrame(matrix) ==
    [columns |-> {ProbNames[c + 1] : c \in 0..(n_components - 1)},
     rows |-> Eager([i \in 1..Len(matrix) |->
                 ("index" :> (i - 1))
                   @@ [nm \in {ProbNames[c + 1] : c \in 0..(n_components - 1)} |->
                         matrix[i][RankIn(ProbNames, nm) - 1]]])]

\* range(1, stop)
\* a range that includes its stop
range_inclusive(stop) == [i \in 1..stop |-> i]

\* range(1, stop)
range(stop) == [i \in 1..(stop - 1) |-> i]

\* d[key] = value on a dict kept as its items in insertion order
DictSet(d, key, value) ==
    IF \E i \in 1..Len(d) : d[i][1] = key
    THEN [i \in 1..Len(d) |-> IF d[i][1] = key THEN <<key, value>> ELSE d[i]]
    ELSE Append(d, <<key, value>>)

keys(d) == [i \in 1..Len(d) |-> d[i][1]]

----------------------------------------------------------------------------
(* Input files *)

CsvColumns == {"speaker", "phone_label", "F1", "F2"}

Row(s, l, f1, f2) == [speaker |-> s, phone_label |-> l, F1 |-> f1, F2 |-> f2]

read_csv(rows) == [columns |-> CsvColumns, rows |-> RangeIndex(rows)]

\* a recording of three speakers, measurements in hundreds of Hz
Reference ==
    << Row("s1", "ey", Num(5), Num(19)), Row("s1", "iy", Num(3), Num(22)),
       Row("s1", "aa", Num(7), Num(12)), Row("s1", "iy", Num(3), Num(23)),
       Row("s1", "aa", Num(8), Num(11)), Row("s2", "iy", Num(3), Num(24)),
       Row("s2", "aa", Num(8), Num(13)), Row("s2", "ey", Num(5), Num(20)),
       Row("s2", "iy", Num(4), Num(25)), Row("s2", "ih", Num(4), Num(19)),
       Row("s3", "ey", Num(6), Num(21)), Row("s1", "ey", NaN, Num(18)),
       Row("s2", "aa", Num(7), NaN), Row("s3", "ey", Num(6), Num(22)) >>

Without(s, D) == SelectSeq([i \in 1..Len(s) |-> <<i, s[i]>>], LAMBDA e : e[1] \notin D)

\* the reference recording cut after any row, with up to MaxDrop rows lost
ReferenceFiles ==
    {read_csv([i \in 1..Len(Without(SubSeq(Reference, 1, n), D)) |->
                 Without(SubSeq(Reference, 1, n), D)[i][2]]) :
        n \in 0..Len(Reference),
        D \in {D \in SUBSET (1..Len(Reference)) : Cardinality(D) <= MaxDrop}}

\* the file t written without column c
WithoutColumn(t, c) ==
    [columns |-> t.columns \ {c},
     rows |-> Eager([i \in 1..Len(t.rows) |->
                [x \in DOMAIN t.rows[i] \ {c} |-> t.rows[i][x]]])]

\* the file t written with column c left empty in every row
Blank(t, c) ==
    [columns |-> t.columns,
     rows |-> Eager([i \in 1..Len(t.rows) |->
                [x \in DOMAIN t.rows[i] |-> IF x = c THEN NaN ELSE t.rows[i][x]]])]

\* the reference recording cut after any row and exported without one of
\* the measurement columns, or with no F1 measured at all
DamagedFiles ==
    UNION {{WithoutColumn(read_csv(SubSeq(Reference, 1, n)), "F1"),
            WithoutColumn(read_csv(SubSeq(Reference, 1, n)), "F2"),
            Blank(read_csv(SubSeq(Reference, 1, n)), "F1")} : n \in 0..Len(Reference)}

\* a recording that opens with a lax vowel, which the tense subset skips:
\* the rows of tense then carry the index labels 1, 2, ..., not 0, 1, ...
Shifted ==
    << Row("s1", "ih", Num(4), Num(19)), Row("s1", "iy", Num(3), Num(22)),
       Row("s1", "aa", Num(7), Num(12)), Row("s1", "iy", Num(3), Num(23)),
       Row("s1", "aa", Num(8), Num(11)), Row("s1", "iy", Num(4), Num(25)),
       Row("s1", "aa", Num(8), Num(13)), Row("s1", "ey", Num(5), Num(20)) >>

ShiftedFiles == {read_csv(SubSeq(Shifted, 1, n)) : n \in (Len(Shifted) - 1)..Len(Shifted)}

\* speaker A: three iy tokens and one aa token, (F2, F1) in Hz
ExampleTable ==
    << Row("A", "iy", Num(300), Num(500)), Row("A", "iy", Num(310), Num(520)),
       Row("A", "iy", Num(290), Num(480)), Row("A", "aa", Num(700), Num(900)) >>

\* the tokens with measurements in 1..side, numbered: token (a - 1) * side
\* + b has F1 = a and F2 = b
GridRow(t, side) ==
    Row("A", "iy", Num(((t - 1) \div side) + 1), Num(((t - 1) % side) + 1))

\* every one-speaker file of n such iy tokens, in the order of their numbers
GridFiles(n, side) ==
    {read_csv([i \in 1..n |-> GridRow(ts[i], side)]) :
        ts \in {f \in [1..n -> 1..(side * side)] :
                  \A i \in 1..(n - 1) : f[i] <= f[i + 1]}}

ExampleFiles ==
    {read_csv(ExampleTable)} \cup GridFiles(3, MaxGrid)
                            \cup GridFiles(MaxGridRows, MaxGrid - 1)

Hz == {NaN} \cup {Num(x) : x \in 1..MaxHz}

RawRows == {Row(s, l, f1, f2) : s \in {"s1", "s2"}, l \in {"iy", "ey", "ih"},
                                f1 \in Hz, f2 \in Hz}

\* every file of at most MaxRows rows
ArbitraryFiles == UNION {{read_csv(rows) : rows \in [1..n -> RawRows]} : n \in 0..MaxRows}

----------------------------------------------------------------------------
(* The run *)

NoError == "none"

Notebook ==
    << "endangered_budapest", "sexual_chain", "viral_position", "solved_belief",
       "linear_major", "brazilian_grant", "brazilian_grant_for", "dried_server",
       "caroline_princeton", "regulation_vegetable", "critical_telephone",
       "treated_cancellation", "chinese_society", "insured_patio",
       "strange_meter", "nuclear_frontier", "nuclear_frontier_for",
       "important_celebrity" >>

\* the cells that prepare the tables, without the clustering cells
Preparation ==
    << "endangered_budapest", "sexual_chain", "viral_position",
       "regulation_vegetable", "chinese_society" >>

\* the k-means cells, with the sweep or with the second fit
SweepCells ==
    << "endangered_budapest", "sexual_chain", "viral_position", "solved_belief",
       "linear_major", "brazilian_grant", "brazilian_grant_for" >>

SecondFitCells ==
    << "endangered_budapest", "sexual_chain", "viral_position", "solved_belief",
       "dried_server", "caroline_princeton" >>

NoFrame == [columns |-> {}, rows |-> <<>>]
NoModel == [unbound |-> TRUE]

Start(schedule, files) ==
    /\ spade_buckeye_csv \in files
    /\ cells = schedule
    /\ pc = 1
    /\ error = NoError
    /\ vowels = NoFrame /\ zscores = NoFrame /\ subset = NoFrame
    /\ formants = NoFrame /\ tense = NoFrame /\ tense_formants_z = NoFrame
    /\ probs = NoFrame /\ tense_means = NoFrame /\ tense_formants_mean = NoFrame
    /\ k_subset_zscore = NoModel /\ k_subset_z2 = NoModel /\ g_tense = NoModel
    /\ g_tense_means = NoModel /\ g = NoModel /\ tense_means_db = NoModel
    /\ inertias = <<>> /\ aics = <<>> /\ k = 0 /\ range_iter = <<>>
    /\ Out = NoFrame

Init == Start(Notebook, ReferenceFiles \cup DamagedFiles \cup ShiftedFiles)

InitPrep == Start(Preparation, ArbitraryFiles)

InitKMeans == \E schedule \in {SweepCells, SecondFitCells} : Start(schedule, ExampleFiles)

\* the run is about to execute this cell
At(cell) == error = NoError /\ pc <= Len(cells) /\ cells[pc] = cell

\* this cell has run to its end
Ran(cell) == \E i \in 1..(pc - 1) : i <= Len(cells) /\ cells[i] = cell

\* this cell raised
Raised(cell) == error # NoError /\ cells[pc] = cell

----------------------------------------------------------------------------
(* The cells *)

\* the cell raises: the run stops where it is
Raise(exception) == error' = exception /\ pc' = pc

Continue == error' = error /\ pc' = pc + 1

\* vowels = pd.read_csv(...); vowels = vowels[~vowels['F1'].isnull()].
\* vowels['F1'] raises KeyError when the file has no such column, after
\* vowels was bound to the file as read
endangered_budapest ==
    /\ At("endangered_budapest")
    /\ IF "F1" \notin spade_buckeye_csv.columns
       THEN /\ vowels' = spade_buckeye_csv
            /\ Raise("KeyError")
       ELSE /\ vowels' = BoolIndex(spade_buckeye_csv,
                                   [i \in 1..Len(spade_buckeye_csv.rows) |->
                                      ~isnull(spade_buckeye_csv.rows[i]["F1"])])
            /\ Continue
    /\ UNCHANGED <<spade_buckeye_csv, cells, zscores, subset, formants,
                   k_subset_zscore, inertias, k, k_subset_z2, tense,
                   tense_formants_z, g_tense, probs, tense_means,
                   tense_formants_mean, g_tense_means, aics, g, tense_means_db,
                   range_iter, Out>>

\* the z-scores as a new frame with a fresh RangeIndex
speaker_zscores_reindexed(t) ==
    reset_index(rename(transform(t, {"speaker"}, {"F2", "F1"}),
                       ("F2" :> "F2.z") @@ ("F1" :> "F1.z")))

\* vowels.groupby('speaker')[['F2','F1']].transform(stats.zscore).rename(...)
speaker_zscores(t) ==
    rename(transform(t, {"speaker"}, {"F2", "F1"}),
           ("F2" :> "F2.z") @@ ("F1" :> "F1.z"))

\* zscores = ...; vowels = pd.concat([vowels, zscores], axis=1).  Selecting
\* [['F2','F1']] raises KeyError when one of them is no column.  With no row
\* there is no group: pandas versions differ on whether transform then
\* raises ("No objects to concatenate") or returns an empty frame
sexual_chain ==
    /\ At("sexual_chain")
    /\ \E raises \in (IF {"F2", "F1"} \subseteq vowels.columns /\ Len(vowels.rows) = 0
                       THEN BOOLEAN ELSE {FALSE}) :
        IF raises \/ ~({"F2", "F1"} \subseteq vowels.columns)
        THEN
             /\ Raise(IF raises THEN "ValueError" ELSE "KeyError")
             /\ UNCHANGED <<spade_buckeye_csv, cells, vowels, zscores, subset, formants,
                            k_subset_zscore, inertias, k, k_subset_z2, tense,
                            tense_formants_z, g_tense, probs, tense_means,
                            tense_formants_mean, g_tense_means, aics, g, tense_means_db,
                            range_iter, Out>>
        ELSE
             /\ zscores' = speaker_zscores(vowels)
             /\ vowels' = concat(vowels, speaker_zscores(vowels))
             /\ Continue
             /\ UNCHANGED <<spade_buckeye_csv, cells, subset, formants, k_subset_zscore,
                            inertias, k, k_subset_z2, tense, tense_formants_z, g_tense,
                            probs, tense_means, tense_formants_mean, g_tense_means, aics,
                            g, tense_means_db, range_iter, Out>>

\* the mask inverted: df[~df['phone_label'].isin(labels)]
isin_phone_label_inverted(t, labels) ==
    BoolIndex(t, [i \in 1..Len(t.rows) |-> t.rows[i]["phone_label"] \notin labels])

\* the filtered rows renumbered: df[...].reset_index(drop=True)
isin_phone_label_reindexed(t, labels) ==
    reset_index(BoolIndex(t, [i \in 1..Len(t.rows) |->
                                t.rows[i]["phone_label"] \in labels]))

\* df[df['phone_label'].isin(labels)]
isin_phone_label(t, labels) ==
    BoolIndex(t, [i \in 1..Len(t.rows) |-> t.rows[i]["phone_label"] \in labels])

\* subset = vowels[vowels['phone_label'].isin(subset_vowels)]
viral_position ==
    /\ At("viral_position")
    /\ subset' = isin_phone_label(vowels, subset_vowels)
    /\ Continue
    /\ UNCHANGED <<spade_buckeye_csv, cells, vowels, zscores, formants,
                   k_subset_zscore, inertias, k, k_subset_z2, tense,
                   tense_formants_z, g_tense, probs, tense_means,
                   tense_formants_mean, g_tense_means, aics, g, tense_means_db,
                   range_iter, Out>>

\* formants = subset.loc[:,['F2.z','F1.z']];
\* k_subset_zscore = cluster.KMeans(n_clusters = 3).fit(formants);
\* subset['cluster_label'] = k_subset_zscore.labels_
solved_belief ==
    /\ At("solved_belief")
    /\ formants' = Loc(subset, {"F2.z", "F1.z"})
    /\ IF KMeansRaises(Loc(subset, {"F2.z", "F1.z"}), n_clusters)
       THEN
            /\ Raise("ValueError")
            /\ UNCHANGED <<spade_buckeye_csv, cells, vowels, zscores, subset,
                           k_subset_zscore, inertias, k, k_subset_z2, tense,
                           tense_formants_z, g_tense, probs, tense_means,
                           tense_formants_mean, g_tense_means, aics, g, tense_means_db,
                           range_iter, Out>>
       ELSE \E fit \in KMeansFits(Loc(subset, {"F2.z", "F1.z"}), n_clusters) :
            /\ k_subset_zscore' = fit
            /\ subset' = SetColumn(subset, "cluster_label", fit.labels_)
            /\ Continue
            /\ UNCHANGED <<spade_buckeye_csv, cells, vowels, zscores, inertias, k,
                           k_subset_z2, tense, tense_formants_z, g_tense, probs,
                           tense_means, tense_formants_mean, g_tense_means, aics, g,
                           tense_means_db, range_iter, Out>>

\* pd.crosstab(subset['phone_label'], subset['cluster_label'], normalize='index')
linear_major ==
    /\ At("linear_major")
    /\ Out' = crosstab(Column(subset, "phone_label"), Column(subset, "cluster_label"))
    /\ Continue
    /\ UNCHANGED <<spade_buckeye_csv, cells, vowels, zscores, subset, formants,
                   k_subset_zscore, inertias, k, k_subset_z2, tense,
                   tense_formants_z, g_tense, probs, tense_means,
                   tense_formants_mean, g_tense_means, aics, g, tense_means_db,
                   range_iter>>

\* inertias = {}; for k in range(1,7): the loop is entered
brazilian_grant ==
    /\ At("brazilian_grant")
    /\ inertias' = <<>>
    /\ range_iter' = range(inertia_range_stop)
    /\ Continue
    /\ UNCHANGED <<spade_buckeye_csv, cells, vowels, zscores, subset, formants,
                   k_subset_zscore, k, k_subset_z2, tense, tense_formants_z,
                   g_tense, probs, tense_means, tense_formants_mean,
                   g_tense_means, aics, g, tense_means_db, Out>>

\* one pass of the loop body:
\* k_subset_zscore = cluster.KMeans(n_clusters = k).fit(formants);
\* inertias[k] = k_subset_zscore.inertia_
brazilian_grant_for ==
    /\ At("brazilian_grant_for")
    /\ k' = Head(range_iter)
    /\ range_iter' = Tail(range_iter)
    /\ IF KMeansRaises(formants, Head(range_iter))
       THEN
            /\ Raise("ValueError")
            /\ UNCHANGED <<spade_buckeye_csv, cells, vowels, zscores, subset, formants,
                           k_subset_zscore, inertias, k_subset_z2, tense,
                           tense_formants_z, g_tense, probs, tense_means,
                           tense_formants_mean, g_tense_means, aics, g, tense_means_db,
                           Out>>
       ELSE \E fit \in KMeansFits(formants, Head(range_iter)) :
            /\ k_subset_zscore' = fit
            /\ inertias' = DictSet(inertias, Head(range_iter), fit.inertia_)
            /\ error' = error
            /\ pc' = IF Tail(range_iter) = <<>> THEN pc + 1 ELSE pc
            /\ UNCHANGED <<spade_buckeye_csv, cells, vowels, zscores, subset, formants,
                           k_subset_z2, tense, tense_formants_z, g_tense, probs,
                           tense_means, tense_formants_mean, g_tense_means, aics, g,
                           tense_means_db, Out>>

\* k_subset_z2 = cluster.KMeans(n_clusters = 2).fit(formants);
\* subset['cluster_label_z2'] = k_subset_z2.labels_
dried_server ==
    /\ At("dried_server")
    /\ IF KMeansRaises(formants, n_clusters_z2)
       THEN
            /\ Raise("ValueError")
            /\ UNCHANGED <<spade_buckeye_csv, cells, vowels, zscores, subset, formants,
                           k_subset_zscore, inertias, k, k_subset_z2, tense,
                           tense_formants_z, g_tense, probs, tense_means,
                           tense_formants_mean, g_tense_means, aics, g, tense_means_db,
                           range_iter, Out>>
       ELSE \E fit \in KMeansFits(formants, n_clusters_z2) :
            /\ k_subset_z2' = fit
            /\ subset' = SetColumn(subset, "cluster_label_z2", fit.labels_)
            /\ Continue
            /\ UNCHANGED <<spade_buckeye_csv, cells, vowels, zscores, formants,
                           k_subset_zscore, inertias, k, tense, tense_formants_z,
                           g_tense, probs, tense_means, tense_formants_mean,
                           g_tense_means, aics, g, tense_means_db, range_iter, Out>>

\* pd.crosstab(subset['phone_label'], subset['cluster_label_z2'], normalize='index')
caroline_princeton ==
    /\ At("caroline_princeton")
    /\ Out' = crosstab(Column(subset, "phone_label"),
                       Column(subset, "cluster_label_z2"))
    /\ Continue
    /\ UNCHANGED <<spade_buckeye_csv, cells, vowels, zscores, subset, formants,
                   k_subset_zscore, inertias, k, k_subset_z2, tense,
                   tense_formants_z, g_tense, probs, tense_means,
                   tense_formants_mean, g_tense_means, aics, g, tense_means_db,
                   range_iter>>

\* tense = vowels[vowels['phone_label'].isin(tense_vowels)]
regulation_vegetable ==
    /\ At("regulation_vegetable")
    /\ tense' = isin_phone_label(vowels, tense_vowels)
    /\ Continue
    /\ UNCHANGED <<spade_buckeye_csv, cells, vowels, zscores, subset, formants,
                   k_subset_zscore, inertias, k, k_subset_z2, tense_formants_z,
                   g_tense, probs, tense_means, tense_formants_mean,
                   g_tense_means, aics, g, tense_means_db, range_iter, Out>>

\* tense_formants_z = tense.loc[:,['F2.z','F1.z']];
\* g_tense = mixture.GaussianMixture(n_components=5); g_tense.fit(...);
\* tense['gmm_label'] = g_tense.predict(tense_formants_z);
\* tense = tense.reset_index(drop=True);
\* probs = pd.DataFrame(g_tense.predict_proba(tense_formants_z)).rename(...);
\* tense = pd.concat([tense,probs], axis=1)
critical_telephone ==
    /\ At("critical_telephone")
    /\ tense_formants_z' = Loc(tense, {"F2.z", "F1.z"})
    /\ IF GaussianMixtureRaises(Loc(tense, {"F2.z", "F1.z"}), n_components)
       THEN
            /\ Raise("ValueError")
            /\ g_tense' = [n_components |-> n_components]
            /\ UNCHANGED <<spade_buckeye_csv, cells, vowels, zscores, subset, formants,
                           k_subset_zscore, inertias, k, k_subset_z2, tense, probs,
                           tense_means, tense_formants_mean, g_tense_means, aics, g,
                           tense_means_db, range_iter, Out>>
       ELSE \E fit \in GaussianMixtureFits(Loc(tense, {"F2.z", "F1.z"}), n_components) :
            /\ g_tense' = fit
            /\ probs' = ProbsFrame(predict_proba(fit, fit.X))
            /\ tense' = concat(reset_index(SetColumn(tense, "gmm_label",
                                                     predict(fit, fit.X))),
                               ProbsFrame(predict_proba(fit, fit.X)))
            /\ Continue
            /\ UNCHANGED <<spade_buckeye_csv, cells, vowels, zscores, subset, formants,
                           k_subset_zscore, inertias, k, k_subset_z2, tense_means,
                           tense_formants_mean, g_tense_means, aics, g, tense_means_db,
                           range_iter, Out>>

\* pd.crosstab(tense['phone_label'], tense['gmm_label'], normalize='index')
treated_cancellation ==
    /\ At("treated_cancellation")
    /\ Out' = crosstab(Column(tense, "phone_label"), Column(tense, "gmm_label"))
    /\ Continue
    /\ UNCHANGED <<spade_buckeye_csv, cells, vowels, zscores, subset, formants,
                   k_subset_zscore, inertias, k, k_subset_z2, tense,
                   tense_formants_z, g_tense, probs, tense_means,
                   tense_formants_mean, g_tense_means, aics, g, tense_means_db,
                   range_iter>>

\* df.groupby(['speaker','phone_label'])[['F2.z','F1.z']].mean().reset_index()
speaker_means(t) == groupby_mean(t, "speaker", "phone_label", {"F2.z", "F1.z"})

\* tense_means = tense.groupby(...)[...].mean().reset_index(); tense_means
chinese_society ==
    /\ At("chinese_society")
    /\ tense_means' = speaker_means(tense)
    /\ Out' = speaker_means(tense)
    /\ Continue
    /\ UNCHANGED <<spade_buckeye_csv, cells, vowels, zscores, subset, formants,
                   k_subset_zscore, inertias, k, k_subset_z2, tense,
                   tense_formants_z, g_tense, probs, tense_formants_mean,
                   g_tense_means, aics, g, tense_means_db, range_iter>>

\* tense_formants_mean = tense_means.loc[:,['F2.z','F1.z']];
\* g_tense_means = mixture.GaussianMixture(n_components=5); g_tense_means.fit(...);
\* tense_means['gmm_label'] = g_tense_means.predict(tense_formants_mean)
insured_patio ==
    /\ At("insured_patio")
    /\ tense_formants_mean' = Loc(tense_means, {"F2.z", "F1.z"})
    /\ IF GaussianMixtureRaises(Loc(tense_means, {"F2.z", "F1.z"}), n_components)
       THEN
            /\ Raise("ValueError")
            /\ g_tense_means' = [n_components |-> n_components]
            /\ UNCHANGED <<spade_buckeye_csv, cells, vowels, zscores, subset, formants,
                           k_subset_zscore, inertias, k, k_subset_z2, tense,
                           tense_formants_z, g_tense, probs, tense_means, aics, g,
                           tense_means_db, range_iter, Out>>
       ELSE \E fit \in GaussianMixtureFits(Loc(tense_means, {"F2.z", "F1.z"}),
                                           n_components) :
            /\ g_tense_means' = fit
            /\ tense_means' = SetColumn(tense_means, "gmm_label", predict(fit, fit.X))
            /\ Continue
            /\ UNCHANGED <<spade_buckeye_csv, cells, vowels, zscores, subset, formants,
                           k_subset_zscore, inertias, k, k_subset_z2, tense,
                           tense_formants_z, g_tense, probs, aics, g, tense_means_db,
                           range_iter, Out>>

\* pd.crosstab(tense_means['phone_label'], tense_means['gmm_label'], normalize='index')
strange_meter ==
    /\ At("strange_meter")
    /\ Out' = crosstab(Column(tense_means, "phone_label"),
                       Column(tense_means, "gmm_label"))
    /\ Continue
    /\ UNCHANGED <<spade_buckeye_csv, cells, vowels, zscores, subset, formants,
                   k_subset_zscore, inertias, k, k_subset_z2, tense,
                   tense_formants_z, g_tense, probs, tense_means,
                   tense_formants_mean, g_tense_means, aics, g, tense_means_db,
                   range_iter>>

\* aics = {}; for k in range(1,10): the loop is entered
nuclear_frontier ==
    /\ At("nuclear_frontier")
    /\ aics' = <<>>
    /\ range_iter' = range(aic_range_stop)
    /\ Continue
    /\ UNCHANGED <<spade_buckeye_csv, cells, vowels, zscores, subset, formants,
                   k_subset_zscore, inertias, k, k_subset_z2, tense,
                   tense_formants_z, g_tense, probs, tense_means,
                   tense_formants_mean, g_tense_means, g, tense_means_db, Out>>

\* one pass of the loop body: g = mixture.GaussianMixture(n_components=k);
\* g.fit(tense_formants_z); aics[k] = g.aic(tense_formants_z)
nuclear_frontier_for ==
    /\ At("nuclear_frontier_for")
    /\ k' = Head(range_iter)
    /\ range_iter' = Tail(range_iter)
    /\ IF GaussianMixtureRaises(tense_formants_z, Head(range_iter))
       THEN
            /\ Raise("ValueError")
            /\ g' = [n_components |-> Head(range_iter)]
            /\ UNCHANGED <<spade_buckeye_csv, cells, vowels, zscores, subset, formants,
                           k_subset_zscore, inertias, k_subset_z2, tense,
                           tense_formants_z, g_tense, probs, tense_means,
                           tense_formants_mean, g_tense_means, aics, tense_means_db,
                           Out>>
       ELSE \E fit \in GaussianMixtureFits(tense_formants_z, Head(range_iter)) :
            /\ g' = fit
            /\ aics' = DictSet(aics, Head(range_iter), aic(fit, tense_formants_z))
            /\ error' = error
            /\ pc' = IF Tail(range_iter) = <<>> THEN pc + 1 ELSE pc
            /\ UNCHANGED <<spade_buckeye_csv, cells, vowels, zscores, subset, formants,
                           k_subset_zscore, inertias, k_subset_z2, tense,
                           tense_formants_z, g_tense, probs, tense_means,
                           tense_formants_mean, g_tense_means, tense_means_db, Out>>

\* tense_means_db = cluster.DBSCAN(); tense_means_db.fit(tense_formants_mean);
\* tense_means['db_labels'] = tense_means_db.labels_
important_celebrity ==
    /\ At("important_celebrity")
    /\ IF DBSCANRaises(tense_formants_mean)
       THEN
            /\ Raise("ValueError")
            /\ tense_means_db' = [eps |-> "default"]
            /\ UNCHANGED <<spade_buckeye_csv, cells, vowels, zscores, subset, formants,
                           k_subset_zscore, inertias, k, k_subset_z2, tense,
                           tense_formants_z, g_tense, probs, tense_means,
                           tense_formants_mean, g_tense_means, aics, g, range_iter,
                           Out>>
       ELSE \E fit \in DBSCANFits(tense_formants_mean) :
            /\ tense_means_db' = fit
            /\ tense_means' = SetColumn(tense_means, "db_labels", fit.labels_)
            /\ Continue
            /\ UNCHANGED <<spade_buckeye_csv, cells, vowels, zscores, subset, formants,
                           k_subset_zscore, inertias, k, k_subset_z2, tense,
                           tense_formants_z, g_tense, probs, tense_formants_mean,
                           g_tense_means, aics, g, range_iter, Out>>

Next ==
    \/ endangered_budapest \/ sexual_chain \/ viral_position \/ solved_belief
    \/ linear_major \/ brazilian_grant \/ brazilian_grant_for \/ dried_server
    \/ caroline_princeton \/ regulation_vegetable \/ critical_telephone
    \/ treated_cancellation \/ chinese_society \/ insured_patio
    \/ strange_meter \/ nuclear_frontier \/ nuclear_frontier_for
    \/ important_celebrity

\* the whole notebook, top to bottom, on a file of the reference recording
Spec == Init /\ [][Next]_vars

NextPrep ==
    \/ endangered_budapest \/ sexual_chain \/ viral_position
    \/ regulation_vegetable \/ chinese_society

\* the table-preparing cells alone, on every small file
SpecPrep == InitPrep /\ [][NextPrep]_vars

NextKMeans ==
    \/ endangered_budapest \/ sexual_chain \/ viral_position \/ solved_belief
    \/ linear_major \/ brazilian_grant \/ brazilian_grant_for \/ dried_server
    \/ caroline_princeton

\* the k-means cells alone, on the example file and on small one-speaker
\* files, whose fits are computed
SpecKMeans == InitKMeans /\ [][NextKMeans]_vars

----------------------------------------------------------------------------
(* Properties of the table-preparing cells (SpecPrep) *)

ZColumns == {"F2.z", "F1.z"}

\* the raw column a normalized column is computed from
RawOf(c) == IF c = "F2.z" THEN "F2" ELSE "F1"

\* the positions of the rows of speaker t.rows[i].speaker, in order; the
\* group is looked at from its first row, i = SpeakerGroup(t, i)[1]
SpeakerGroup(t, i) == GroupPositions(t, {"speaker"}, i)

\* the cells of column c at the positions grp
Cells(t, grp, c) == Eager([p \in 1..Len(grp) |-> t.rows[grp[p]][c]])

AnyNull(a) == \E p \in 1..Len(a) : isnull(a[p])

\* the sum of the squares of the cells of a
SumSquares(a) == Sum(Eager([p \in 1..Len(a) |-> Square(a[p])]))

\* the cells of a have mean 0, and standard deviation 1 with divisor
\* Len(a) - ddof: their sum is 0 and the sum of their squares is Len(a) - ddof
Standardized(a, ddof) ==
    /\ ~AnyNull(a)
    /\ Sum(a).n = 0
    /\ SumSquares(a) = Num(Len(a) - ddof)

\* z[p] is (x[p] - mean(x)) / (population standard deviation of x), x being
\* integers: with N = Len(x), S = sum of x, D[p] = N * x[p] - S and Q = sum
\* of D[q]^2, the square of z[p] is N * D[p]^2 / Q and z[p] has the sign of D[p]
IsPopulationZscore(z, x) ==
    LET N == Len(x)
        S == Sum(x).n
        D == Eager([p \in 1..N |-> N * x[p].n - S])
        Q == Sum(Eager([p \in 1..N |-> Num(D[p] * D[p])])).n
    IN  \A p \in 1..N :
           /\ ~isnull(z[p])
           /\ Square(z[p]) = Real(N * D[p] * D[p], Q, 1, 1)
           /\ (z[p].n > 0) = (D[p] > 0)
           /\ (z[p].n < 0) = (D[p] < 0)

\* C1, as claimed, read on the groups whose normalized values are defined
\* (the reading most favourable to it): after the normalization cell, in
\* every speaker group of at least 2 rows, each normalized column has mean 0
\* and sample standard deviation (divisor n - 1) equal to 1.
C1_SampleStd ==
    Ran("sexual_chain") =>
      \A i \in 1..Len(vowels.rows) : \A c \in ZColumns :
         LET grp == SpeakerGroup(vowels, i)
             z == Cells(vowels, grp, c)
         IN  (grp[1] = i /\ Len(grp) >= 2 /\ ~AnyNull(z)) => Standardized(z, 1)

\* C1, amended: after the normalization cell, in every speaker group whose
\* raw values of a column are all present and not all equal, the normalized
\* column has mean 0 and population standard deviation (divisor n) equal to
\* 1, each value being (value - group mean) / group population standard
\* deviation; in every other group the normalized column is NaN throughout.
C1_PopulationStd ==
    Ran("sexual_chain") =>
      \A i \in 1..Len(vowels.rows) : \A c \in ZColumns :
         LET grp == SpeakerGroup(vowels, i)
             x == Cells(vowels, grp, RawOf(c))
             z == Cells(vowels, grp, c)
         IN  grp[1] = i =>
               IF ~AnyNull(x) /\ \E p \in 1..Len(x) : x[p] # x[1]
               THEN Standardized(z, 0) /\ IsPopulationZscore(z, x)
               ELSE \A p \in 1..Len(z) : isnull(z[p])

\* the table normalized has a speaker group of three or more rows with
\* defined, irrational z-scores, and a group of two rows whose F1 are equal
C1_Witness ==
    /\ Ran("sexual_chain")
    /\ \E i \in 1..Len(vowels.rows) :
          /\ Len(SpeakerGroup(vowels, i)) >= 3
          /\ \A c \in ZColumns :
                ~isnull(vowels.rows[i][c]) /\ vowels.rows[i][c].ra # vowels.rows[i][c].rb
    /\ \E i \in 1..Len(vowels.rows) :
          /\ Len(SpeakerGroup(vowels, i)) = 2
          /\ isnull(vowels.rows[i]["F1.z"])
          /\ ~isnull(vowels.rows[i]["F1"])

\* sub is exactly the rows of t whose phone_label is in labels: every row of
\* sub is a row of t with such a label, whole and unchanged; every such row
\* of t is in sub, once; the rows keep their order; the columns are t's
IsSubsetOf(sub, t, labels) ==
    LET Pos(r) == CHOOSE j \in 1..Len(t.rows) : t.rows[j] = r
    IN  /\ sub.columns = t.columns
        /\ \A i \in 1..Len(sub.rows) :
              /\ \E j \in 1..Len(t.rows) : t.rows[j] = sub.rows[i]
              /\ sub.rows[i]["phone_label"] \in labels
        /\ \A j \in 1..Len(t.rows) :
              t.rows[j]["phone_label"] \in labels
                => Cardinality({i \in 1..Len(sub.rows) : sub.rows[i] = t.rows[j]}) = 1
        /\ \A i1, i2 \in 1..Len(sub.rows) :
              i1 < i2 => Pos(sub.rows[i1]) < Pos(sub.rows[i2])

\* C2: each subset cell leaves exactly the rows of vowels whose phone_label
\* is in the cell's label set: none left out, none kept that does not match,
\* in their original order, with every column and its values.
C2_SubsetExact ==
    /\ Ran("viral_position") => IsSubsetOf(subset, vowels, subset_vowels)
    /\ Ran("regulation_vegetable") => IsSubsetOf(tense, vowels, tense_vowels)

\* both subset cells have run and one has kept a row that the other dropped
C2_Witness ==
    /\ Ran("regulation_vegetable")
    /\ Len(subset.rows) >= 1
    /\ Len(subset.rows) < Len(tense.rows)

\* the positions of the rows of t with this speaker and phone_label
PairRows(t, s, l) ==
    SelectSeq(Indices(Len(t.rows)),
              LAMBDA j : t.rows[j]["speaker"] = s /\ t.rows[j]["phone_label"] = l)

Pairs(t) == {<<t.rows[j]["speaker"], t.rows[j]["phone_label"]>> : j \in 1..Len(t.rows)}

\* the radicals of the cells that are not NaN
Radicals(a) == {<<a[p].ra, a[p].rb>> : p \in {q \in 1..Len(a) : ~isnull(a[q])}}

\* the sum, as pandas sums (NaN cells skipped), of the cells of this radical
SumOfRadical(a, rad) ==
    Sum(<<Real(0, 1, rad[1], rad[2])>>
          \o SelectSeq(a, LAMBDA v : ~isnull(v) /\ <<v.ra, v.rb>> = rad))

\* C3: the aggregation cell returns one row per distinct (speaker,
\* phone_label) pair of tense, so as many rows as there are pairs; each value
\* is the arithmetic mean of the column over the pair's rows (group size
\* times the value is the sum of those rows; NaN where they are NaN); and for
\* each column the sum over the output rows of group size times group mean
\* equals the sum of the column over the input rows (sums as pandas takes
\* them, NaN cells skipped, compared radical by radical).  The columns are
\* the two keys and the two means, until later cells attach their labels.
C3_Aggregation ==
    Ran("chinese_society") =>
      /\ Len(tense_means.rows) = Cardinality(Pairs(tense))
      /\ Pairs(tense_means) = Pairs(tense)
      /\ tense_means.columns \ {"gmm_label", "db_labels"}
           = {"speaker", "phone_label"} \cup ZColumns
      /\ At("insured_patio") => tense_means.columns \cap {"gmm_label", "db_labels"} = {}
      /\ \A g_ \in 1..Len(tense_means.rows) : \A c \in ZColumns :
            LET grp == PairRows(tense, tense_means.rows[g_]["speaker"],
                                tense_means.rows[g_]["phone_label"])
                x == Cells(tense, grp, c)
            IN  IF AnyNull(x) THEN isnull(tense_means.rows[g_][c])
                ELSE Times(tense_means.rows[g_][c], Len(grp)) = Sum(x)
      /\ \A c \in ZColumns :
            LET weighted ==
                  Eager([g_ \in 1..Len(tense_means.rows) |->
                     Times(tense_means.rows[g_][c],
                           Len(PairRows(tense, tense_means.rows[g_]["speaker"],
                                        tense_means.rows[g_]["phone_label"])))])
                input == Column(tense, c)
            IN  /\ Radicals(weighted) = Radicals(input)
                /\ \A rad \in Radicals(input) :
                      SumOfRadical(weighted, rad) = SumOfRadical(input, rad)

\* a pair with two rows of different values, which do not sum to 0, has been
\* aggregated, and so has a pair with one row
C3_Witness ==
    /\ Ran("chinese_society")
    /\ \E j1, j2 \in 1..Len(tense.rows) :
          /\ j1 # j2
          /\ tense.rows[j1]["speaker"] = tense.rows[j2]["speaker"]
          /\ tense.rows[j1]["phone_label"] = tense.rows[j2]["phone_label"]
          /\ ~isnull(tense.rows[j1]["F2.z"])
          /\ tense.rows[j1]["F2.z"] # tense.rows[j2]["F2.z"]
          /\ Add(tense.rows[j1]["F2.z"], tense.rows[j2]["F2.z"]).n # 0
    /\ Len(tense_means.rows) < Len(tense.rows)
    /\ \E j \in 1..Len(tense.rows) :
          Len(PairRows(tense, tense.rows[j]["speaker"], tense.rows[j]["phone_label"])) = 1

\* C8, as claimed: after the load cell every row of vowels has a value in
\* both F1 and F2.
C8_NoMissingMeasurement ==
    Ran("endangered_budapest") =>
      \A i \in 1..Len(vowels.rows) :
         ~isnull(vowels.rows[i]["F1"]) /\ ~isnull(vowels.rows[i]["F2"])

\* C9: the normalization cell only adds columns: the rows, their order and
\* index labels, and every cell of every column there was are as before;
\* the columns are the old ones and F2.z and F1.z; and the new cells of a
\* row are the z-scores computed for the row of that index label.
C9_OnlyAddsColumns ==
    [][(At("sexual_chain") /\ error' = NoError) =>
         /\ Len(vowels'.rows) = Len(vowels.rows)
         /\ vowels'.columns = vowels.columns \cup ZColumns
         /\ ZColumns \cap vowels.columns = {}
         /\ \A i \in 1..Len(vowels.rows) :
               /\ DOMAIN vowels'.rows[i] = DOMAIN vowels.rows[i] \cup ZColumns
               /\ \A c \in DOMAIN vowels.rows[i] :
                     vowels'.rows[i][c] = vowels.rows[i][c]
               /\ \E j \in 1..Len(zscores'.rows) :
                     /\ zscores'.rows[j]["index"] = vowels.rows[i]["index"]
                     /\ j = i
                     /\ \A c \in ZColumns :
                           vowels'.rows[i][c] = zscores'.rows[j][c]]_vars

\* the normalization cell has run on a table whose first file row was
\* dropped by the load cell, so whose index labels do not start at 0
C9_Witness ==
    /\ Ran("sexual_chain")
    /\ Len(vowels.rows) >= 1
    /\ vowels.rows[1]["index"] # 0

LabelsIn(t) == {t.rows[j]["phone_label"] : j \in 1..Len(t.rows)}

\* C10: filtering a subset again with its own label set returns it
\* unchanged, and filtering vowels with the set of all labels that occur in
\* it returns vowels, every row and column equal.
C10_Idempotent ==
    /\ Ran("viral_position") => isin_phone_label(subset, subset_vowels) = subset
    /\ Ran("regulation_vegetable") => isin_phone_label(tense, tense_vowels) = tense
    /\ Ran("sexual_chain") => isin_phone_label(vowels, LabelsIn(vowels)) = vowels

\* both subsets are taken, one of them is not empty, and the index labels of
\* vowels do not start at 0
C10_Witness ==
    /\ Ran("regulation_vegetable")
    /\ Len(tense.rows) >= 1
    /\ vowels.rows[1]["index"] # 0

----------------------------------------------------------------------------
(* Properties of the whole run (Spec) *)

\* ct is the row-normalized contingency table of the label sequences a and b
IsContingency(ct, a, b) ==
    LET rowset == {a[p] : p \in 1..Len(a)}
        colset == {b[p] : p \in 1..Len(b)}
        InRow(r) == {p \in 1..Len(a) : a[p] = r}
    IN  /\ {ct.index[i] : i \in 1..Len(ct.index)} = rowset
        /\ Len(ct.index) = Cardinality(rowset)
        /\ {ct.columns[j] : j \in 1..Len(ct.columns)} = colset
        /\ Len(ct.columns) = Cardinality(colset)
        /\ \A i \in 1..Len(ct.index) :
              LET r == ct.index[i]
              IN  /\ Cardinality(InRow(r)) > 0
                  /\ \A j \in 1..Len(ct.columns) :
                        LET c == ct.columns[j]
                        IN  /\ ~isnull(ct.values[r][c])
                            /\ Times(ct.values[r][c], Cardinality(InRow(r)))
                                 = Num(Cardinality({p \in InRow(r) : b[p] = c}))
                  /\ Sum([j \in 1..Len(ct.columns) |-> ct.values[r][ct.columns[j]]])
                       = Num(1)

\* C4: each contingency table the notebook displays has one row for every
\* phone_label with at least one row in the table it is taken from and no
\* other row; each cell times the number of rows of its phone_label is the
\* number of those rows with the cell's cluster label; every row of the
\* table sums to 1; and no cell is NaN.
C4_Contingency ==
    /\ (Ran("linear_major") /\ ~Ran("caroline_princeton"))
         => IsContingency(Out, Column(subset, "phone_label"),
                          Column(subset, "cluster_label"))
    /\ (Ran("caroline_princeton") /\ ~Ran("treated_cancellation"))
         => IsContingency(Out, Column(subset, "phone_label"),
                          Column(subset, "cluster_label_z2"))
    /\ (Ran("treated_cancellation") /\ ~Ran("chinese_society"))
         => IsContingency(Out, Column(tense, "phone_label"),
                          Column(tense, "gmm_label"))
    /\ Ran("strange_meter")
         => IsContingency(Out, Column(tense_means, "phone_label"),
                          Column(tense_means, "gmm_label"))

\* the last contingency table is displayed and has a phone_label whose rows
\* are spread over two cluster labels
C4_Witness ==
    /\ Ran("strange_meter")
    /\ \E i \in 1..Len(Out.index) : \E j \in 1..Len(Out.columns) :
          LET v == Out.values[Out.index[i]][Out.columns[j]]
          IN  0 < v.n /\ v.n < v.d

\* d has exactly the keys 1..last, inserted in ascending order, and under
\* each key the named criterion of the model fitted with that count on X
IsSweepOf(d, last, name, X) ==
    /\ keys(d) = [i \in 1..last |-> i]
    /\ \A i \in 1..Len(d) :
          /\ d[i][2].criterion = name
          /\ d[i][2].count = d[i][1]
          /\ d[i][2].X = X

\* C5: when the inertia sweep has finished, inertias has exactly the keys
\* 1..6 in ascending insertion order, the value under k being the inertia of
\* the k-means model fitted with k clusters on formants; when the AIC sweep
\* has finished, aics has exactly the keys 1..9 in ascending insertion order,
\* the value under k being the AIC of the mixture fitted with k components
\* on tense_formants_z; and while a sweep runs its keys are 1, 2, ... in order.
C5_Sweep ==
    /\ Ran("brazilian_grant")
         => keys(inertias) = [i \in 1..Len(inertias) |-> i]
    /\ Ran("nuclear_frontier")
         => keys(aics) = [i \in 1..Len(aics) |-> i]
    /\ Ran("brazilian_grant_for")
         => IsSweepOf(inertias, inertia_range_stop - 1, "inertia", formants)
    /\ Ran("nuclear_frontier_for")
         => IsSweepOf(aics, aic_range_stop - 1, "aic", tense_formants_z)

\* both sweeps have finished
C5_Witness ==
    /\ Ran("nuclear_frontier_for")
    /\ Len(inertias) > 1
    /\ Len(aics) > 1

Fitted(m) == "X" \in DOMAIN m

\* the number of clusters or components m was asked for
Requested(m) == IF "n_clusters" \in DOMAIN m THEN m.n_clusters ELSE m.n_components

\* no fitted model was asked for more clusters than its matrix has rows; a
\* cell whose fit raised has bound no fitted model and attached no labels;
\* a sweep whose fit raised for k holds the criteria of 1..k-1 only, and
\* the last model fitted in it is the one for k-1
C7_State ==
    /\ \A m \in {k_subset_zscore, k_subset_z2, g_tense, g_tense_means, g} :
          Fitted(m) => Requested(m) <= Len(m.X.rows)
    /\ Ran("solved_belief") => Len(formants.rows) >= n_clusters
    /\ Ran("dried_server") => Len(formants.rows) >= n_clusters_z2
    /\ Ran("critical_telephone") => Len(tense_formants_z.rows) >= n_components
    /\ Ran("insured_patio") => Len(tense_formants_mean.rows) >= n_components
    /\ \A i \in 1..Len(inertias) : inertias[i][1] <= Len(formants.rows)
    /\ \A i \in 1..Len(aics) : aics[i][1] <= Len(tense_formants_z.rows)
    /\ Raised("solved_belief")
         => ~Fitted(k_subset_zscore) /\ "cluster_label" \notin subset.columns
    /\ Raised("dried_server")
         => ~Fitted(k_subset_z2) /\ "cluster_label_z2" \notin subset.columns
    /\ Raised("critical_telephone")
         => ~Fitted(g_tense) /\ "gmm_label" \notin tense.columns /\ probs = NoFrame
    /\ Raised("insured_patio")
         => ~Fitted(g_tense_means) /\ "gmm_label" \notin tense_means.columns
    /\ Raised("brazilian_grant_for")
         => /\ keys(inertias) = [i \in 1..(k - 1) |-> i]
            /\ k > 1 => Fitted(k_subset_zscore) /\ Requested(k_subset_zscore) = k - 1
    /\ Raised("nuclear_frontier_for")
         => /\ keys(aics) = [i \in 1..(k - 1) |-> i]
            /\ ~Fitted(g)

\* C7: a clustering call asked for more clusters or components than its
\* matrix has rows raises and the error ends the run: the call is not
\* carried out with a smaller count, it binds no fitted model, attaches no
\* labels and stores no criterion, and no step follows an error, so the call
\* is not retried and a sweep fits no later count.
C7_TooManyClusters == []C7_State /\ [][error = NoError]_vars

\* a sweep has raised at a count greater than the number of rows of a
\* matrix without NaN, after fitting the smaller counts
C7_Witness ==
    /\ Raised("brazilian_grant_for")
    /\ ~HasNaN(formants)
    /\ Len(formants.rows) > 0
    /\ k > Len(formants.rows)
    /\ Len(inertias) > 0

\* a required measurement is missing from the file f: F1 or F2 is no column
\* of it, or is empty in every one of its rows
RequiredMissing(f) ==
    \E c \in {"F1", "F2"} :
       \/ c \notin f.columns
       \/ Len(f.rows) > 0 /\ \A i \in 1..Len(f.rows) : isnull(f.rows[i][c])

\* C11, as claimed: when a required measurement column is absent from the
\* file, or is empty in every row, the run does not get past the load cell:
\* no normalization, subset or clustering cell runs on that data.
C11_MissingDataStops ==
    RequiredMissing(spade_buckeye_csv) => ~Ran("endangered_budapest")

\* the rows of t whose speaker has fewer than 2 rows in t
InSmallGroup(t, i) == Len(SpeakerGroup(t, i)) < 2

\* t without the rows of the speakers that have fewer than 2 rows
WithoutSmallGroups(t) ==
    BoolIndex(t, [i \in 1..Len(t.rows) |-> ~InSmallGroup(t, i)])

\* C12: on a table with a speaker of fewer than 2 rows the normalization
\* cell does not raise; it leaves NaN in F2.z and F1.z of that speaker's
\* rows, and gives every other row the values it gets when the table is
\* normalized without the rows of such speakers.
C12_SmallGroup ==
    [][(/\ At("sexual_chain")
        /\ {"F2", "F1"} \subseteq vowels.columns
        /\ \E i \in 1..Len(vowels.rows) : InSmallGroup(vowels, i))
       => /\ error' = NoError
          /\ Len(vowels'.rows) = Len(vowels.rows)
          /\ \A i \in 1..Len(vowels.rows) : \A c \in ZColumns :
                IF InSmallGroup(vowels, i)
                THEN isnull(vowels'.rows[i][c])
                ELSE \E j \in 1..Len(WithoutSmallGroups(vowels).rows) :
                        /\ WithoutSmallGroups(vowels).rows[j]["index"]
                             = vowels.rows[i]["index"]
                        /\ vowels'.rows[i][c]
                             = speaker_zscores(WithoutSmallGroups(vowels)).rows[j][c]]_vars

\* a table with a speaker of one row and a speaker of three or more rows
\* has been normalized, the latter to defined values
C12_Witness ==
    /\ Ran("sexual_chain")
    /\ \E i \in 1..Len(vowels.rows) : InSmallGroup(vowels, i)
    /\ \E i \in 1..Len(vowels.rows) :
          /\ Len(SpeakerGroup(vowels, i)) >= 3
          /\ \A c \in ZColumns : ~isnull(vowels.rows[i][c])

----------------------------------------------------------------------------
(* Properties of the k-means cells on small one-speaker files (SpecKMeans) *)

IsExample == spade_buckeye_csv = read_csv(ExampleTable)

\* the normalized point of row i of the table t
ZPoint(t, i) == <<t.rows[i]["F2.z"], t.rows[i]["F1.z"]>>

\* the positions of the rows of t with this phone_label
Tokens(t, label) == {i \in 1..Len(t.rows) : t.rows[i]["phone_label"] = label}

\* C13: on the example file, after the normalization cell every two iy
\* points are nearer to each other than any iy point is to the aa point,
\* and after the cell that fits 2 clusters the three iy rows of subset have
\* one cluster_label_z2 and the aa row has the other.
C13_Example ==
    /\ (IsExample /\ Ran("sexual_chain")) =>
         /\ Cardinality(Tokens(vowels, "iy")) = 3
         /\ Cardinality(Tokens(vowels, "aa")) = 1
         /\ \A i, j, m \in Tokens(vowels, "iy") : \A a \in Tokens(vowels, "aa") :
               Less(Dist2(ZPoint(vowels, i), ZPoint(vowels, j)),
                    Dist2(ZPoint(vowels, m), ZPoint(vowels, a)))
    /\ (IsExample /\ Ran("dried_server")) =>
         /\ Len(subset.rows) = 4
         /\ \A i, j \in Tokens(subset, "iy") :
               subset.rows[i]["cluster_label_z2"] = subset.rows[j]["cluster_label_z2"]
         /\ \A i \in Tokens(subset, "iy") : \A a \in Tokens(subset, "aa") :
               subset.rows[i]["cluster_label_z2"] # subset.rows[a]["cluster_label_z2"]

\* the example file has been clustered in two and the iy rows have label 1
C13_Witness ==
    /\ IsExample
    /\ Ran("dried_server")
    /\ \A i \in Tokens(subset, "iy") : subset.rows[i]["cluster_label_z2"] = 1

\* the inertia recorded under the i-th key of the sweep
Recorded(i) == inertias[i][2].value

-----------------------------------------------------------------------------
(* Properties of the models and labelings during the whole run (Spec) *)

\* C15: the inertia sweep changes only the mapping from counts to inertias:
\* its passes leave the model bound to k_subset_zscore (the 3-cluster model
\* whose labels are in subset's cluster_label), the feature matrix and all
\* the tables as they were.
C15_SweepKeepsModel ==
    [][(At("brazilian_grant") \/ At("brazilian_grant_for")) =>
          /\ k_subset_zscore' = k_subset_zscore
          /\ k_subset_zscore'.n_clusters = n_clusters
          /\ k_subset_zscore'.labels_ = Column(subset', "cluster_label")
          /\ UNCHANGED <<spade_buckeye_csv, vowels, zscores, subset, formants,
                         k_subset_z2, tense, tense_formants_z, g_tense, probs,
                         tense_means, tense_formants_mean, g_tense_means,
                         tense_means_db>>]_vars

\* the columns that hold the labels of some clustering
LabelColumns == {"cluster_label", "cluster_label_z2", "gmm_label", "db_labels"}

\* t2 has the rows of t1, in order, with the same value in column c
SameColumn(t1, t2, c) ==
    /\ Len(t2.rows) = Len(t1.rows)
    /\ \A i \in 1..Len(t1.rows) :
          /\ t2.rows[i]["index"] = t1.rows[i]["index"]
          /\ t2.rows[i][c] = t1.rows[i][c]

\* C16: attaching the k = 2 labels to subset leaves the k = 3 label of every
\* row as it was and both columns cover the same rows; attaching a label
\* column to subset or to tense changes neither vowels nor the other subset,
\* no label column ever appears in vowels, and tense, taken from vowels after
\* subset was labeled, has none of subset's label columns.
C16_LabelingsCoexist ==
    [][/\ (At("dried_server") /\ error' = NoError) =>
             /\ SameColumn(subset, subset', "cluster_label")
             /\ {"cluster_label", "cluster_label_z2"} \subseteq subset'.columns
             /\ \A i \in 1..Len(subset'.rows) :
                   {"cluster_label", "cluster_label_z2"} \subseteq DOMAIN subset'.rows[i]
             /\ subset'.columns = subset.columns \cup {"cluster_label_z2"}
       /\ (At("solved_belief") \/ At("dried_server")) =>
             vowels' = vowels /\ tense' = tense
       /\ At("critical_telephone") => vowels' = vowels /\ subset' = subset
       /\ vowels'.columns \cap LabelColumns = {}
       /\ tense'.columns \cap {"cluster_label", "cluster_label_z2"} = {}]_vars

\* both labelings are on subset and differ on some row, and tense has been
\* taken from vowels afterwards
C16_Witness ==
    /\ Ran("regulation_vegetable")
    /\ Len(tense.rows) > 0
    /\ \E i \in 1..Len(subset.rows) :
          subset.rows[i]["cluster_label"] = 2 /\ subset.rows[i]["cluster_label_z2"] = 0

\* C17: every feature matrix handed to a clustering call has a defined
\* value, neither missing nor NaN, in F2.z and F1.z of every row.
C17_DefinedFeatures ==
    \A X \in {formants, tense_formants_z, tense_formants_mean} :
       \A i \in 1..Len(X.rows) :
          ~isnull(X.rows[i]["F2.z"]) /\ ~isnull(X.rows[i]["F1.z"])

\* the columns row r of t had, apart from its index label
Values(t, r) == [c \in t.columns |-> r[c]]

\* C18: the mixture cell keeps the rows of tense, in their order, adds none
\* and loses none; each row has gained prob_0..prob_4, the posteriors the
\* model gives for that row's F2.z and F1.z, and gmm_label, the index of the
\* largest of the row's five posteriors.
C18_MixtureRows ==
    [][(At("critical_telephone") /\ error' = NoError) =>
          /\ Len(tense'.rows) = Len(tense.rows)
          /\ tense'.columns = tense.columns \cup {"gmm_label"}
                                 \cup {ProbNames[c] : c \in 1..n_components}
          /\ \A i \in 1..Len(tense.rows) :
                LET r == tense'.rows[i]
                IN  /\ Values(tense, r) = Values(tense, tense.rows[i])
                    /\ r["index"] = i - 1
                    /\ g_tense'.X.rows[i]["F2.z"] = r["F2.z"]
                    /\ g_tense'.X.rows[i]["F1.z"] = r["F1.z"]
                    /\ \A c \in 0..(n_components - 1) :
                          /\ r[ProbNames[c + 1]] = g_tense'.resp[i][c]
                          /\ ~Less(r[ProbNames[r["gmm_label"] + 1]], r[ProbNames[c + 1]])
                    /\ r["gmm_label"] \in 0..(n_components - 1)]_vars

\* the mixture cell has run on a tense table whose first row was not the
\* first row of vowels, and some row's largest posterior is not prob_0
C18_Witness ==
    /\ Ran("critical_telephone")
    /\ "prob_4" \in tense.columns
    /\ vowels.rows[1]["phone_label"] \notin tense_vowels
    /\ \E i \in 1..Len(tense.rows) :
          /\ tense.rows[i]["gmm_label"] = 1
          /\ Less(tense.rows[i]["prob_0"], tense.rows[i]["prob_1"])

====
